---- MODULE Spec2Model ----
(***************************************************************************)
(* A model of src/main.py: the batch job that fetches the forecast of the  *)
(* tracked regions (WeatherAPI.get_weather_forecast), flattens it into one *)
(* record per location (WeatherAPI.parse_forecast_data), and writes the    *)
(* table as a CSV object (upload_to_gcs), driven by main().                *)
(*                                                                         *)
(* JSON objects are TLA+ functions with string domains (a missing key is a *)
(* key outside DOMAIN, a KeyError), JSON arrays are sequences (reading [0] *)
(* of an empty one is an IndexError).  A Python dict whose insertion order *)
(* matters (weather_data) is a sequence of <<key, value>> pairs.           *)
(***************************************************************************)
EXTENDS Integers, Sequences, FiniteSets, TLC

VARIABLES
    environ,        \* os.environ: the variables that are set
    pc,             \* main()'s position: config, fetch, parse, name, upload, done
    outcome,        \* running | success | failure (exception re-raised by main)
    run,            \* number of the current run of the job
    clock,          \* wall clock, in ticks (TicksPerSecond ticks per second)
    forecast_data,  \* main's forecast_data: the payload, or None
    df,             \* main's df: the DataFrame, or None
    filename,       \* main's filename
    store,          \* the bucket: object name -> CSV content
    log,            \* the log lines of the current run
    calls,          \* what the current run did to the outside world so far
    history         \* one entry per run that ended in success

vars == <<environ, pc, outcome, run, clock, forecast_data, df, filename,
          store, log, calls, history>>

----------------------------------------------------------------------------
(* Bounds of the model *)

MaxLocs == 3
MaxUnknownLen == 3
MaxKeyLen == 7
MaxRuns == 2
MaxTicks == 3
TicksPerSecond == 2

(* Program constants *)

FingerprintLen == 5
LocationCount == 22
HttpOk == 200
SecondsPerMinute == 60

----------------------------------------------------------------------------
(* Python values *)

None == [kind |-> "None"]
NaN == "NaN"
Raised == [ok |-> FALSE]

Has(d, k) == k \in DOMAIN d

Min(a, b) == IF a < b THEN a ELSE b

(* An insertion-ordered dict: d[k] = v keeps k's place when k is already there *)
OHas(d, k) == \E i \in 1..Len(d) : d[i][1] = k
OGet(d, k) == d[CHOOSE i \in 1..Len(d) : d[i][1] = k][2]
OSet(d, k, v) ==
    IF OHas(d, k)
    THEN [i \in 1..Len(d) |-> IF d[i][1] = k THEN <<k, v>> ELSE d[i]]
    ELSE Append(d, <<k, v>>)
OKeys(d) == [i \in 1..Len(d) |-> d[i][1]]

InSeq(s, x) == \E i \in 1..Len(s) : s[i] = x

(* str < str compares code points lexicographically; the region names of the
   model with their code points *)
CodePoints ==
    [A |-> <<65>>, AB |-> <<65, 66>>, B |-> <<66>>, a |-> <<97>>]

RECURSIVE LexLess(_, _)
LexLess(s, t) ==
    IF Len(t) = 0 THEN FALSE
    ELSE IF Len(s) = 0 THEN TRUE
    ELSE IF s[1] # t[1] THEN s[1] < t[1]
    ELSE LexLess(Tail(s), Tail(t))

StrLess(a, b) == LexLess(CodePoints[a], CodePoints[b])

----------------------------------------------------------------------------
(* datetime.now().strftime(...): the clock truncated to the second, written
   as its fields *)

(* the format without its seconds field *)
Strftime_minutes(fmt, t) ==
    fmt \o ":" \o ToString((t \div TicksPerSecond) \div SecondsPerMinute)

Strftime(fmt, t) ==
    LET s == t \div TicksPerSecond
    IN  fmt \o ":" \o ToString(s \div SecondsPerMinute)
            \o ":" \o ToString(s % SecondsPerMinute)

----------------------------------------------------------------------------
(* WeatherAPI.parse_forecast_data *)

(* the chain with the MaxT branch writing the MinT field *)
SetFields_swapped(weather_data, element_name, parameter) ==
    IF element_name = "Wx" THEN
        IF Has(parameter, "parameterName") /\ Has(parameter, "parameterValue")
        THEN [ok |-> TRUE,
              val |-> OSet(OSet(weather_data, "weather_description",
                                parameter.parameterName),
                           "weather_code", parameter.parameterValue)]
        ELSE Raised
    ELSE IF element_name \in {"PoP", "MinT", "MaxT", "CI"} THEN
        IF Has(parameter, "parameterName")
        THEN [ok |-> TRUE,
              val |-> OSet(weather_data,
                           CASE element_name = "PoP" -> "rain_probability"
                             [] element_name = "MinT" -> "min_temperature"
                             [] element_name = "MaxT" -> "min_temperature"
                             [] element_name = "CI" -> "comfort_index",
                           parameter.parameterName)]
        ELSE Raised
    ELSE [ok |-> TRUE, val |-> weather_data]

(* the chain with a last branch that keeps an element of any other type *)
SetFields_keepsUnknown(weather_data, element_name, parameter) ==
    IF element_name = "Wx" THEN
        IF Has(parameter, "parameterName") /\ Has(parameter, "parameterValue")
        THEN [ok |-> TRUE,
              val |-> OSet(OSet(weather_data, "weather_description",
                                parameter.parameterName),
                           "weather_code", parameter.parameterValue)]
        ELSE Raised
    ELSE IF Has(parameter, "parameterName")
    THEN [ok |-> TRUE,
          val |-> OSet(weather_data,
                       CASE element_name = "PoP" -> "rain_probability"
                         [] element_name = "MinT" -> "min_temperature"
                         [] element_name = "MaxT" -> "max_temperature"
                         [] element_name = "CI" -> "comfort_index"
                         [] OTHER -> element_name,
                       parameter.parameterName)]
    ELSE Raised

(* lines 102-112: the if/elif chain on element_name *)
SetFields(weather_data, element_name, parameter) ==
    IF element_name = "Wx" THEN
        IF Has(parameter, "parameterName") /\ Has(parameter, "parameterValue")
        THEN [ok |-> TRUE,
              val |-> OSet(OSet(weather_data, "weather_description",
                                parameter.parameterName),
                           "weather_code", parameter.parameterValue)]
        ELSE Raised
    ELSE IF element_name \in {"PoP", "MinT", "MaxT", "CI"} THEN
        IF Has(parameter, "parameterName")
        THEN [ok |-> TRUE,
              val |-> OSet(weather_data,
                           CASE element_name = "PoP" -> "rain_probability"
                             [] element_name = "MinT" -> "min_temperature"
                             [] element_name = "MaxT" -> "max_temperature"
                             [] element_name = "CI" -> "comfort_index",
                           parameter.parameterName)]
        ELSE Raised
    ELSE [ok |-> TRUE, val |-> weather_data]

(* lines 97-112: one turn of the loop over location['weatherElement'] *)
ParseElement(weather_data, element) ==
    IF ~Has(element, "elementName") THEN Raised
    ELSE IF ~Has(element, "time") THEN Raised
    ELSE IF Len(element.time) = 0 THEN Raised
    ELSE IF ~Has(element.time[1], "parameter") THEN Raised
    ELSE SetFields(weather_data, element.elementName,
                   element.time[1].parameter)

(* lines 96-112: the loop over the elements, left at the first exception *)
RECURSIVE ParseElements(_, _)
ParseElements(weather_data, elements) ==
    IF Len(elements) = 0 THEN [ok |-> TRUE, val |-> weather_data]
    ELSE LET r == ParseElement(weather_data, elements[1])
         IN  IF r.ok THEN ParseElements(r.val, Tail(elements)) ELSE Raised

(* lines 84-86: the window of the first element's first time slot *)
WindowOf(location) ==
    IF ~Has(location, "weatherElement") THEN Raised
    ELSE IF Len(location.weatherElement) = 0 THEN Raised
    ELSE LET first == location.weatherElement[1]
         IN  IF ~Has(first, "time") THEN Raised
             ELSE IF Len(first.time) = 0 THEN Raised
             ELSE IF ~Has(first.time[1], "startTime") THEN Raised
             ELSE IF ~Has(first.time[1], "endTime") THEN Raised
             ELSE [ok |-> TRUE,
                   start_time |-> first.time[1].startTime,
                   end_time |-> first.time[1].endTime]

(* lines 80-114: one turn of the loop over the locations *)
ParseLocation(location, now) ==
    IF ~Has(location, "locationName") THEN Raised
    ELSE LET w == WindowOf(location)
         IN  IF ~w.ok THEN Raised
             ELSE ParseElements(
                    << <<"county", location.locationName>>,
                       <<"start_time", w.start_time>>,
                       <<"end_time", w.end_time>>,
                       <<"update_time", Strftime("%Y-%m-%d %H:%M:%S", now)>> >>,
                    location.weatherElement)

(* the loop with the exception caught inside it: a location that raises is
   skipped *)
RECURSIVE ParseLocations_skip(_, _, _)
ParseLocations_skip(acc, locations, now) ==
    IF Len(locations) = 0 THEN [ok |-> TRUE, val |-> acc]
    ELSE LET r == ParseLocation(locations[1], now)
         IN  ParseLocations_skip(IF r.ok THEN Append(acc, r.val) ELSE acc,
                                 Tail(locations), now)

(* lines 77-114: forecast_data, or the exception that left the loop *)
RECURSIVE ParseLocations(_, _, _)
ParseLocations(acc, locations, now) ==
    IF Len(locations) = 0 THEN [ok |-> TRUE, val |-> acc]
    ELSE LET r == ParseLocation(locations[1], now)
         IN  IF r.ok
             THEN ParseLocations(Append(acc, r.val), Tail(locations), now)
             ELSE Raised

(* pd.DataFrame(list of dicts): the columns are the keys in the order they
   first appear, a key a record lacks is NaN in its row *)
RECURSIVE AddKeys(_, _)
AddKeys(columns, keys) ==
    IF Len(keys) = 0 THEN columns
    ELSE AddKeys(IF InSeq(columns, keys[1]) THEN columns
                 ELSE Append(columns, keys[1]),
                 Tail(keys))

RECURSIVE ColumnsOf(_, _)
ColumnsOf(columns, records) ==
    IF Len(records) = 0 THEN columns
    ELSE ColumnsOf(AddKeys(columns, OKeys(records[1])), Tail(records))

DataFrame(records) ==
    LET columns == ColumnsOf(<<>>, records)
    IN  [kind |-> "DataFrame",
         columns |-> columns,
         rows |-> [i \in 1..Len(records) |->
                    [j \in 1..Len(columns) |->
                       IF OHas(records[i], columns[j])
                       THEN OGet(records[i], columns[j]) ELSE NaN]]]

ColumnIndex(frame, name) ==
    CHOOSE j \in 1..Len(frame.columns) : frame.columns[j] = name

Cell(frame, i, name) == frame.rows[i][ColumnIndex(frame, name)]

(* df.sort_values('county'): ascending, rows of equal key in their order *)
RECURSIVE InsertRow(_, _, _)
InsertRow(sorted, row, c) ==
    IF Len(sorted) = 0 THEN <<row>>
    ELSE IF StrLess(row[c], sorted[1][c]) THEN <<row>> \o sorted
    ELSE <<sorted[1]>> \o InsertRow(Tail(sorted), row, c)

RECURSIVE SortRows(_, _, _)
SortRows(sorted, rows, c) ==
    IF Len(rows) = 0 THEN sorted
    ELSE SortRows(InsertRow(sorted, rows[1], c), Tail(rows), c)

(* the frame left in the payload's order *)
SortValues_unsorted(frame, name) == frame

SortValues(frame, name) ==
    [frame EXCEPT !.rows = SortRows(<<>>, frame.rows, ColumnIndex(frame, name))]

(* df.empty *)
IsEmpty(frame) == Len(frame.rows) = 0 \/ Len(frame.columns) = 0

(* lines 69-127 *)
parse_forecast_data(data, now) ==
    IF ~(Has(data, "success") /\ data.success) THEN None
    ELSE IF ~Has(data, "records") THEN None
    ELSE IF ~Has(data.records, "location") THEN None
    ELSE LET r == ParseLocations(<<>>, data.records.location, now)
         IN  IF ~r.ok THEN None
             ELSE LET frame == DataFrame(r.val)
                  IN  IF ~InSeq(frame.columns, "county") THEN None
                      ELSE SortValues(frame, "county")

----------------------------------------------------------------------------
(* upload_to_gcs *)

(* line 139, data.to_csv(index=False): the header row, then one row per
   record with NaN written as the empty cell *)
to_csv(frame) ==
    <<frame.columns>> \o
    [i \in 1..Len(frame.rows) |->
       [j \in 1..Len(frame.columns) |->
          IF frame.rows[i][j] = NaN THEN "" ELSE frame.rows[i][j]]]

(* line 135 *)
BlobName(name) == "weather/" \o name

(* What the storage service does in one call of upload_to_gcs:
   client_raises    storage.Client() or bucket/blob raise (line 133-135)
   upload_raises    blob.upload_from_string raises (line 143)
   exists_raises    the upload returns, blob.exists() raises (line 146)
   absent           the upload returns, blob.exists() is False
   confirmed        the upload returns, blob.exists() is True *)
StorageBehaviours ==
    {"client_raises", "upload_raises", "exists_raises", "absent", "confirmed"}

(* the value returned when the result of blob.exists() is not looked at *)
upload_to_gcs_unverified(behaviour) == behaviour \in {"absent", "confirmed"}

(* lines 129-155: the value returned *)
upload_to_gcs(behaviour) == behaviour = "confirmed"

(* the object is written when upload_from_string returned *)
Wrote(behaviour) == behaviour \in {"exists_raises", "absent", "confirmed"}

(* the requests sent to the storage service: the upload, the existence check *)
StorageOps(behaviour) ==
    CASE behaviour = "client_raises" -> 0
      [] behaviour = "upload_raises" -> 1
      [] OTHER -> 2

----------------------------------------------------------------------------
(* WeatherAPI.get_weather_forecast *)

(* the key logged as it is *)
Fingerprint_whole(api_key) == api_key

(* line 46: self.api_key[:5] *)
Fingerprint(api_key) == SubSeq(api_key, 1, Min(FingerprintLen, Len(api_key)))

Line(level, msg, arg) == [level |-> level, msg |-> msg, arg |-> arg]

(* What requests.get does: raises, or answers with a status and a body that
   is JSON or not *)
HttpRaises == [kind |-> "raises"]
HttpAnswer(status, isJson, data) ==
    [kind |-> "answer", status_code |-> status, isJson |-> isJson, json |-> data]

(* lines 36-67: the value returned and the lines logged *)
get_weather_forecast(api_key, response) ==
    LET head == << Line("INFO", "Making API request for locations", LocationCount),
                   Line("INFO", "Using API key (first 5 chars)", Fingerprint(api_key)) >>
    IN  IF response.kind = "raises"
        THEN [ret |-> None,
              log |-> Append(head, Line("ERROR", "Error in get_weather_forecast", "exception"))]
        ELSE LET status == Append(head, Line("INFO", "API Response Status Code",
                                             response.status_code))
             IN  IF response.status_code # HttpOk
                 THEN [ret |-> None,
                       log |-> Append(status, Line("ERROR", "API Error Response", "body"))]
                 ELSE IF ~response.isJson
                 THEN [ret |-> None,
                       log |-> Append(status, Line("ERROR", "Error in get_weather_forecast",
                                                   "exception"))]
                 ELSE LET data == response.json
                          flag == Append(status,
                                    Line("INFO", "Received data success status",
                                         Has(data, "success") /\ data.success))
                      IN  [ret |-> data,
                           log |-> IF Has(data, "records") /\ Has(data.records, "location")
                                   THEN Append(flag, Line("INFO", "Found locations in response",
                                                          Len(data.records.location)))
                                   ELSE flag]

----------------------------------------------------------------------------
(* The payloads of the model *)

KnownNames == {"Wx", "PoP", "MinT", "MaxT", "CI"}
UnknownName == "UVI"
ApiOrder == <<"Wx", "PoP", "MinT", "CI", "MaxT">>
Windows == {"W1", "W2"}
Regions == DOMAIN CodePoints
RegionAt == <<"a", "B", "AB", "A">>

Parameter(name) ==
    IF name = "Wx"
    THEN [parameterName |-> "Wx-name", parameterValue |-> "Wx-value"]
    ELSE [parameterName |-> name \o "-name", parameterUnit |-> "unit"]

Slot(name, w) ==
    [startTime |-> w \o "-start", endTime |-> w \o "-end", parameter |-> Parameter(name)]

LaterSlot(name) ==
    [startTime |-> "later-start", endTime |-> "later-end",
     parameter |-> [parameterName |-> name \o "-later", parameterValue |-> "later"]]

Element(name, w) ==
    [elementName |-> name, time |-> <<Slot(name, w), LaterSlot(name)>>]

Location(region, elements) ==
    [locationName |-> region, weatherElement |-> elements]

Payload(locations) ==
    [success |-> TRUE, records |-> [location |-> locations]]

SeqsUpTo(S, n) == UNION {[1..k -> S] : k \in 0..n}

Injective(s) == \A i, j \in 1..Len(s) : s[i] = s[j] => i = j

Increasing(s) == \A i, j \in 1..Len(s) : i < j => s[i] < s[j]

ElementsOf(names, w) == [i \in 1..Len(names) |-> Element(names[i], w)]

ApiElements == ElementsOf(ApiOrder, "W1")

(* every order of every subset of the known elements *)
Orders == {s \in SeqsUpTo(KnownNames, Cardinality(KnownNames)) : Injective(s)}

(* every subset of the known elements, in the provider's order *)
ApiSubsets ==
    {[i \in 1..Len(p) |-> ApiOrder[p[i]]] :
        p \in {q \in SeqsUpTo(1..Len(ApiOrder), Len(ApiOrder)) : Increasing(q)}}

(* N locations with the provider's elements, the names in any order, a name
   possibly twice *)
ValidPayloads ==
    {Payload([i \in 1..Len(names) |-> Location(names[i], ApiElements)]) :
        names \in SeqsUpTo(Regions, MaxLocs)}

(* one location, or two, with only some of the known elements *)
SubsetPayloads ==
    {Payload(<<Location("A", ElementsOf(s, "W1"))>>) : s \in Orders}
    \cup
    {Payload(<<Location("B", ElementsOf(s, "W1")), Location("A", ElementsOf(t, "W2"))>>) :
        s \in ApiSubsets, t \in ApiSubsets}

(* one location whose list mixes known elements with elements of another
   type, with or without a parameter *)
MixedElements ==
    {Element(n, w) : n \in {"Wx", "MinT", UnknownName}, w \in Windows}
    \cup {[elementName |-> UnknownName,
           time |-> <<[startTime |-> "W1-start", endTime |-> "W1-end"]>>]}

MixedPayloads ==
    {Payload(<<Location("A", s)>>) : s \in SeqsUpTo(MixedElements, MaxUnknownLen)}

(* a location as the provider sends it, and the ways the model bends it *)
GoodElements == <<Element("Wx", "W1"), Element("PoP", "W1"), Element(UnknownName, "W1")>>

Without(f, k) == [x \in DOMAIN f \ {k} |-> f[x]]

(* elements with element i's first slot replaced by slot *)
WithSlot(elements, i, slot) ==
    [elements EXCEPT ![i] = [@ EXCEPT !.time = <<slot>> \o Tail(@)]]

FirstSlot(elements, i) == elements[i].time[1]

Variants(region) ==
    LET g == GoodElements
        loc(e) == Location(region, e)
    IN  [no_locationName |-> [weatherElement |-> g],
         no_weatherElement |-> [locationName |-> region],
         empty_weatherElement |-> loc(<<>>),
         first_no_time |-> loc([g EXCEPT ![1] = Without(@, "time")]),
         first_empty_time |-> loc([g EXCEPT ![1] = [@ EXCEPT !.time = <<>>]]),
         first_no_startTime |-> loc(WithSlot(g, 1, Without(FirstSlot(g, 1), "startTime"))),
         first_no_endTime |-> loc(WithSlot(g, 1, Without(FirstSlot(g, 1), "endTime"))),
         second_no_elementName |-> loc([g EXCEPT ![2] = Without(@, "elementName")]),
         second_no_time |-> loc([g EXCEPT ![2] = Without(@, "time")]),
         second_empty_time |-> loc([g EXCEPT ![2] = [@ EXCEPT !.time = <<>>]]),
         second_no_parameter |-> loc(WithSlot(g, 2, Without(FirstSlot(g, 2), "parameter"))),
         unknown_no_parameter |-> loc(WithSlot(g, 3, Without(FirstSlot(g, 3), "parameter"))),
         Wx_no_parameterName |->
            loc(WithSlot(g, 1, [FirstSlot(g, 1) EXCEPT !.parameter = Without(@, "parameterName")])),
         Wx_no_parameterValue |->
            loc(WithSlot(g, 1, [FirstSlot(g, 1) EXCEPT !.parameter = Without(@, "parameterValue")])),
         PoP_no_parameterName |->
            loc(WithSlot(g, 2, [FirstSlot(g, 2) EXCEPT !.parameter = Without(@, "parameterName")])),
         \* keys the code never reads
         second_no_startTime |-> loc(WithSlot(g, 2, Without(FirstSlot(g, 2), "startTime"))),
         unknown_no_parameterName |->
            loc(WithSlot(g, 3, [FirstSlot(g, 3) EXCEPT !.parameter = Without(@, "parameterName")])),
         good |-> loc(g)]

GoodLocations(n) == [i \in 1..n |-> Location(RegionAt[i], GoodElements)]

(* n locations of which one, at any place, is bent in one way *)
BentPayloads ==
    {Payload([GoodLocations(n) EXCEPT ![k] = Variants(RegionAt[k])[v]]) :
        <<n, k, v>> \in {t \in (1..MaxLocs) \X (1..MaxLocs) \X DOMAIN Variants("A") :
                           t[2] <= t[1]}}

(* the top level bent: the flag false or missing, records or location missing *)
TopBentPayloads ==
    UNION {{ [Payload(GoodLocations(n)) EXCEPT !.success = FALSE],
             Without(Payload(GoodLocations(n)), "success"),
             Without(Payload(GoodLocations(n)), "records"),
             [success |-> TRUE, records |-> [datasetDescription |-> "forecast"]] } :
           n \in 0..MaxLocs}

ParsePayloads ==
    ValidPayloads \cup SubsetPayloads \cup MixedPayloads \cup BentPayloads
        \cup TopBentPayloads

(* the bodies a run of the whole job may receive *)
RunPayloads ==
    { Payload(GoodLocations(2)),
      Payload(<<>>),
      Payload(<<Variants("A")["empty_weatherElement"]>>),
      [Payload(GoodLocations(1)) EXCEPT !.success = FALSE],
      <<>> }

HttpResponses ==
    {HttpRaises, HttpAnswer(500, FALSE, <<>>), HttpAnswer(HttpOk, FALSE, <<>>)}
    \cup {HttpAnswer(HttpOk, TRUE, d) : d \in RunPayloads}

(* the credentials of the model: unset, or one string of each length *)
ApiKeys == {[i \in 1..n |-> "k" \o ToString(i)] : n \in 0..MaxKeyLen}
Environments ==
    {[CWB_API_KEY |-> k, GCS_BUCKET_NAME |-> b] : k \in ApiKeys, b \in {"", "bucket"}}
    \cup {[CWB_API_KEY |-> k] : k \in ApiKeys}
    \cup {[GCS_BUCKET_NAME |-> b] : b \in {"", "bucket"}}
    \cup {<<>>}

----------------------------------------------------------------------------
(* main() *)

NoCalls ==
    [http |-> 0,            \* HTTP requests sent
     storage |-> 0,         \* requests sent to the storage service
     fetched |-> "no",      \* get_weather_forecast: no | data | failed
     parse |-> FALSE,       \* parse_forecast_data was invoked
     upload |-> FALSE,      \* upload_to_gcs was invoked
     behaviour |-> "none",  \* what the storage service did in upload_to_gcs
     stamp |-> -1]          \* the clock read at line 187

(* os.environ.get(name) is None, or the empty string: "not value" *)
Missing(name) == ~Has(environ, name) \/ Len(environ[name]) = 0

(* line 166 *)
ConfigMissing == Missing("CWB_API_KEY") \/ Missing("GCS_BUCKET_NAME")

(* the result of the fetch not looked at *)
Falsy_unchecked(data) == FALSE

(* "not forecast_data": None, or an empty dict *)
Falsy(data) == data = None \/ DOMAIN data = {}

(* lines 197-199: the exception is logged and re-raised *)
Fail(lines) ==
    /\ log' = log \o lines \o <<Line("ERROR", "Error in main function", "exception")>>
    /\ outcome' = "failure"
    /\ pc' = "done"

(* lines 158-170 *)
Config ==
    /\ pc = "config"
    /\ LET lines == << Line("INFO", "Starting weather data collection process", ""),
                       Line("INFO", "Using bucket name",
                            IF Has(environ, "GCS_BUCKET_NAME")
                            THEN environ["GCS_BUCKET_NAME"] ELSE "None") >>
       IN  IF ConfigMissing
           THEN Fail(lines)
           ELSE /\ log' = log \o lines
                /\ pc' = "fetch"
                /\ UNCHANGED outcome
    /\ UNCHANGED <<environ, run, clock, forecast_data, df, filename, store, calls, history>>

(* lines 173-177 *)
Fetch ==
    /\ pc = "fetch"
    /\ \E response \in HttpResponses :
         LET r == get_weather_forecast(environ["CWB_API_KEY"], response)
             lines == <<Line("INFO", "Fetching weather forecast data", "")>> \o r.log
         IN  /\ forecast_data' = r.ret
             /\ calls' = [calls EXCEPT !.http = @ + 1,
                                       !.fetched = IF r.ret = None THEN "failed" ELSE "data"]
             /\ IF Falsy(r.ret)
                THEN Fail(lines)
                ELSE /\ log' = log \o lines
                     /\ pc' = "parse"
                     /\ UNCHANGED outcome
    /\ UNCHANGED <<environ, run, clock, df, filename, store, history>>

(* line 183 *)
NothingParsed(frame) == frame = None \/ IsEmpty(frame)

(* lines 180-184 *)
ParseStage ==
    /\ pc = "parse"
    /\ LET frame == parse_forecast_data(forecast_data, clock)
           lines == <<Line("INFO", "Parsing weather data", "")>>
       IN  /\ df' = frame
           /\ calls' = [calls EXCEPT !.parse = TRUE]
           /\ IF NothingParsed(frame)
              THEN Fail(lines)
              ELSE /\ log' = log \o lines
                   /\ pc' = "name"
                   /\ UNCHANGED outcome
    /\ UNCHANGED <<environ, run, clock, forecast_data, filename, store, history>>

(* lines 187-188 *)
NameStage ==
    /\ pc = "name"
    /\ filename' = "weather_forecast_" \o Strftime("%Y%m%d_%H%M%S", clock) \o ".csv"
    /\ calls' = [calls EXCEPT !.stamp = clock]
    /\ pc' = "upload"
    /\ UNCHANGED <<environ, outcome, run, clock, forecast_data, df, store, log, history>>

(* lines 191-195 *)
UploadStage ==
    /\ pc = "upload"
    /\ \E behaviour \in StorageBehaviours :
         LET lines == <<Line("INFO", "Uploading data to GCS", filename)>>
             csv == to_csv(df)
         IN  /\ calls' = [calls EXCEPT !.upload = TRUE,
                                       !.behaviour = behaviour,
                                       !.storage = @ + StorageOps(behaviour)]
             /\ store' = IF Wrote(behaviour)
                         THEN [n \in DOMAIN store \cup {BlobName(filename)} |->
                                 IF n = BlobName(filename) THEN csv ELSE store[n]]
                         ELSE store
             /\ IF upload_to_gcs(behaviour)
                THEN /\ log' = log \o lines \o
                          <<Line("INFO", "Weather data collection completed successfully", "")>>
                     /\ outcome' = "success"
                     /\ pc' = "done"
                     /\ history' = Append(history,
                                      [run |-> run, object |-> BlobName(filename),
                                       stamp |-> calls.stamp, csv |-> csv])
                ELSE /\ Fail(lines)
                     /\ UNCHANGED history
    /\ UNCHANGED <<environ, run, clock, forecast_data, df, filename>>

(* the scheduler starts the job again: a fresh process, the same environment,
   the same bucket *)
NextRun ==
    /\ pc = "done"
    /\ run < MaxRuns
    /\ run' = run + 1
    /\ pc' = "config"
    /\ outcome' = "running"
    /\ forecast_data' = None
    /\ df' = None
    /\ filename' = ""
    /\ log' = <<>>
    /\ calls' = NoCalls
    /\ UNCHANGED <<environ, clock, store, history>>

(* time passes *)
StartClocks == {0, (SecondsPerMinute - 1) * TicksPerSecond}

Elapsed == IF clock >= (SecondsPerMinute - 1) * TicksPerSecond
           THEN clock - (SecondsPerMinute - 1) * TicksPerSecond ELSE clock

Tick ==
    /\ Elapsed < MaxTicks
    /\ clock' = clock + 1
    /\ UNCHANGED <<environ, pc, outcome, run, forecast_data, df, filename, store,
                   log, calls, history>>

Init ==
    /\ environ \in Environments
    /\ pc = "config"
    /\ outcome = "running"
    /\ run = 1
    /\ clock \in StartClocks
    /\ forecast_data = None
    /\ df = None
    /\ filename = ""
    /\ store = <<>>
    /\ log = <<>>
    /\ calls = NoCalls
    /\ history = <<>>

Next == Config \/ Fetch \/ ParseStage \/ NameStage \/ UploadStage \/ NextRun \/ Tick

Spec == Init /\ [][Next]_vars

(* parse_forecast_data and what follows it, on every payload of the model,
   with the clock frozen *)
InitParse ==
    /\ environ = [CWB_API_KEY |-> <<"k1">>, GCS_BUCKET_NAME |-> "bucket"]
    /\ pc = "parse"
    /\ outcome = "running"
    /\ run = 1
    /\ clock = 0
    /\ forecast_data \in ParsePayloads
    /\ df = None
    /\ filename = ""
    /\ store = <<>>
    /\ log = <<>>
    /\ calls = [NoCalls EXCEPT !.http = 1, !.fetched = "data"]
    /\ history = <<>>

NextParse == ParseStage \/ NameStage \/ UploadStage

SpecParse == InitParse /\ [][NextParse]_vars

----------------------------------------------------------------------------
(* What the claims speak of, stated on the payload and not by the parser *)

TopOk(data) ==
    /\ Has(data, "success") /\ data.success
    /\ Has(data, "records") /\ Has(data.records, "location")

(* the element has every key the parser reads of an element of its type *)
WellFormedElement(e) ==
    /\ Has(e, "elementName") /\ Has(e, "time") /\ Len(e.time) > 0
    /\ Has(e.time[1], "parameter")
    /\ e.elementName \in KnownNames => Has(e.time[1].parameter, "parameterName")
    /\ e.elementName = "Wx" => Has(e.time[1].parameter, "parameterValue")

HasWindow(e) ==
    /\ Has(e, "time") /\ Len(e.time) > 0
    /\ Has(e.time[1], "startTime") /\ Has(e.time[1], "endTime")

WellFormedLocation(l) ==
    /\ Has(l, "locationName") /\ Has(l, "weatherElement")
    /\ Len(l.weatherElement) > 0
    /\ HasWindow(l.weatherElement[1])
    /\ \A k \in 1..Len(l.weatherElement) : WellFormedElement(l.weatherElement[k])

Locations(data) == data.records.location

DistinctNames(locations) ==
    \A i, j \in 1..Len(locations) :
        locations[i].locationName = locations[j].locationName => i = j

Counties(frame) == {Cell(frame, i, "county") : i \in 1..Len(frame.rows)}

(* the row of the frame that holds the record of the region *)
RowOf(frame, region) ==
    CHOOSE i \in 1..Len(frame.rows) : Cell(frame, i, "county") = region

Populated(frame, i, column) ==
    InSeq(frame.columns, column) /\ Cell(frame, i, column) # NaN

OptionalColumns ==
    {"weather_description", "weather_code", "rain_probability",
     "min_temperature", "max_temperature", "comfort_index"}

(* the optional columns an element type fills, as the specification gives them *)
ColumnsFor(name) ==
    CASE name = "Wx" -> {"weather_description", "weather_code"}
      [] name = "PoP" -> {"rain_probability"}
      [] name = "MinT" -> {"min_temperature"}
      [] name = "MaxT" -> {"max_temperature"}
      [] name = "CI" -> {"comfort_index"}
      [] OTHER -> {}

(* the value the first time slot of the element gives the column *)
ValueFor(e, column) ==
    IF column = "weather_code" THEN e.time[1].parameter.parameterValue
    ELSE e.time[1].parameter.parameterName

RemoveAt(s, k) == [i \in 1..(Len(s) - 1) |-> IF i < k THEN s[i] ELSE s[i + 1]]

----------------------------------------------------------------------------
(* The run as a whole: claims checked under Spec *)

EnvMissing(name) == name \notin DOMAIN environ \/ Len(environ[name]) = 0

(* C1: the stages are gated fail-fast.  With CWB_API_KEY or GCS_BUCKET_NAME
   unset or empty no HTTP request and no storage operation is ever made;
   after a failed fetch parse_forecast_data and upload_to_gcs are not
   invoked; after a failed or empty parse upload_to_gcs is not invoked; and
   each of these runs ends in failure, never in success. *)
C1_FailFast ==
    /\ (EnvMissing("CWB_API_KEY") \/ EnvMissing("GCS_BUCKET_NAME")) =>
          /\ calls.http = 0 /\ calls.storage = 0
          /\ ~calls.parse /\ ~calls.upload
          /\ DOMAIN store = {} /\ history = <<>>
          /\ outcome # "success"
          /\ pc \in {"config", "done"}
          /\ pc = "done" => outcome = "failure"
    /\ calls.fetched = "failed" =>
          /\ ~calls.parse /\ ~calls.upload /\ calls.storage = 0
          /\ pc = "done" /\ outcome = "failure"
    /\ (calls.parse /\ (df = None \/ Len(df.rows) = 0)) =>
          /\ ~calls.upload /\ calls.storage = 0
          /\ pc = "done" /\ outcome = "failure"

C1_Witness ==
    /\ pc = "done" /\ outcome = "failure" /\ run = 2
    /\ calls.http = 1 /\ calls.fetched = "failed"
    /\ ~calls.parse /\ ~calls.upload

(* C4: when the upload call returns and blob.exists() then reports the
   object absent, the run ends in failure; a run ends in success only when
   the existence check confirmed the object. *)
C4_VerifiedUpload ==
    /\ calls.behaviour = "absent" => pc = "done" /\ outcome = "failure"
    /\ outcome = "success" => calls.behaviour = "confirmed"

C4_Witness ==
    /\ calls.behaviour = "absent"
    /\ calls.fetched = "data" /\ calls.parse /\ df # None
    /\ BlobName(filename) \in DOMAIN store
    /\ outcome = "failure"

(* C8 as claimed: two runs that both succeed never derive the same object
   name. *)
C8_DistinctObjects ==
    \A i, j \in 1..Len(history) :
        i # j => history[i].object # history[j].object

(* C8 as amended: two runs that both succeed derive different object names
   whenever the clock readings taken at line 187 lie in different seconds. *)
C8_DistinctSeconds ==
    \A i, j \in 1..Len(history) :
        (history[i].stamp \div TicksPerSecond) # (history[j].stamp \div TicksPerSecond)
            => history[i].object # history[j].object

C8_Witness ==
    /\ Len(history) = 2
    /\ (history[1].stamp \div TicksPerSecond) # (history[2].stamp \div TicksPerSecond)
    /\ Cardinality(DOMAIN store) = 2

FingerprintLines ==
    {i \in 1..Len(log) : log[i].msg = "Using API key (first 5 chars)"}

IsPrefix(s, t) == Len(s) <= Len(t) /\ SubSeq(t, 1, Len(s)) = s

C10_EmptyIsValid ==
    (calls.parse /\ TopOk(forecast_data) /\ Locations(forecast_data) = <<>>) =>
        /\ df # None /\ IsEmpty(df)
        /\ outcome = "failure"

----------------------------------------------------------------------------
(* parse_forecast_data and the CSV: claims checked under SpecParse *)

(* a valid response: the flag set, and N >= 1 well-formed locations of N
   different regions *)
ValidResponse(data) ==
    /\ TopOk(data)
    /\ Len(Locations(data)) > 0
    /\ \A i \in 1..Len(Locations(data)) : WellFormedLocation(Locations(data)[i])
    /\ DistinctNames(Locations(data))

(* C2: a valid response with N regions gives exactly N records, one for each
   region of the response, in strictly ascending order of region name, so
   that no two records share a name. *)
C2_OneRecordPerRegion ==
    (calls.parse /\ ValidResponse(forecast_data)) =>
        /\ df # None
        /\ Len(df.rows) = Len(Locations(forecast_data))
        /\ Counties(df) = {Locations(forecast_data)[i].locationName :
                              i \in 1..Len(Locations(forecast_data))}
        /\ \A i \in 1..(Len(df.rows) - 1) :
              StrLess(Cell(df, i, "county"), Cell(df, i + 1, "county"))

C2_Witness ==
    /\ calls.parse /\ ValidResponse(forecast_data)
    /\ Len(Locations(forecast_data)) = 3
    /\ Locations(forecast_data)[1].locationName = "a"
    /\ Locations(forecast_data)[2].locationName = "AB"
    /\ df # None /\ Len(df.rows) = 3
    /\ Cell(df, 1, "county") = "A" /\ Cell(df, 3, "county") = "a"

(* C3: normalization is all or nothing.  The result is a failure whenever
   the success flag is missing or false, records.location is missing, or
   any one location lacks a key the parser reads or has an empty list where
   it reads the first entry, however many well-formed locations precede it;
   a result that is not a failure holds one record for every location of
   the payload. *)
C3_AllOrNothing ==
    calls.parse =>
        /\ ~TopOk(forecast_data) => df = None
        /\ (TopOk(forecast_data)
              /\ \E i \in 1..Len(Locations(forecast_data)) :
                    ~WellFormedLocation(Locations(forecast_data)[i])) => df = None
        /\ df # None =>
              /\ TopOk(forecast_data)
              /\ Len(df.rows) = Len(Locations(forecast_data))
              /\ \A i \in 1..Len(Locations(forecast_data)) :
                    Locations(forecast_data)[i].locationName \in Counties(df)

C3_Witness ==
    /\ calls.parse /\ TopOk(forecast_data)
    /\ Len(Locations(forecast_data)) = 3
    /\ WellFormedLocation(Locations(forecast_data)[1])
    /\ WellFormedLocation(Locations(forecast_data)[2])
    /\ ~WellFormedLocation(Locations(forecast_data)[3])
    /\ df = None /\ outcome = "failure"

(* a location whose elements are known elements, each with the keys the
   parser reads, no type twice, in any order *)
SubsetEntry(l) ==
    /\ Has(l, "locationName") /\ Has(l, "weatherElement")
    /\ \A k \in 1..Len(l.weatherElement) :
          /\ WellFormedElement(l.weatherElement[k]) /\ HasWindow(l.weatherElement[k])
          /\ l.weatherElement[k].elementName \in KnownNames
    /\ \A j, k \in 1..Len(l.weatherElement) :
          l.weatherElement[j].elementName = l.weatherElement[k].elementName => j = k

(* the record of the location has exactly the optional fields of its
   elements, each with the value of the element's first time slot *)
ExactFields(frame, l) ==
    LET i == RowOf(frame, l.locationName)
    IN  /\ \A c \in OptionalColumns :
              Populated(frame, i, c) <=>
                 \E k \in 1..Len(l.weatherElement) :
                    c \in ColumnsFor(l.weatherElement[k].elementName)
        /\ \A k \in 1..Len(l.weatherElement) :
              \A c \in ColumnsFor(l.weatherElement[k].elementName) :
                 Cell(frame, i, c) = ValueFor(l.weatherElement[k], c)

SubsetResponse(data) ==
    /\ TopOk(data)
    /\ Len(Locations(data)) > 0
    /\ \A i \in 1..Len(Locations(data)) : SubsetEntry(Locations(data)[i])
    /\ DistinctNames(Locations(data))

(* C5 as claimed: for every subset of the five known elements, the empty one
   included, the location gives a record with exactly the corresponding
   fields, and never a failure. *)
C5_EverySubset ==
    (calls.parse /\ SubsetResponse(forecast_data)) =>
        /\ df # None
        /\ \A i \in 1..Len(Locations(forecast_data)) :
              ExactFields(df, Locations(forecast_data)[i])

(* C5 as amended: for every subset of the five known elements but the empty
   one, the location gives a record with exactly the corresponding fields,
   and never a failure. *)
C5_EveryNonEmptySubset ==
    (/\ calls.parse /\ SubsetResponse(forecast_data)
     /\ \A i \in 1..Len(Locations(forecast_data)) :
           Len(Locations(forecast_data)[i].weatherElement) > 0) =>
        /\ df # None
        /\ \A i \in 1..Len(Locations(forecast_data)) :
              ExactFields(df, Locations(forecast_data)[i])

C5_Witness ==
    /\ calls.parse /\ SubsetResponse(forecast_data)
    /\ Len(Locations(forecast_data)) = 2
    /\ Len(Locations(forecast_data)[1].weatherElement) = 1
    /\ Locations(forecast_data)[1].weatherElement[1].elementName = "PoP"
    /\ Len(Locations(forecast_data)[2].weatherElement) = 2
    /\ df # None
    /\ Populated(df, RowOf(df, "B"), "rain_probability")
    /\ ~Populated(df, RowOf(df, "A"), "rain_probability")

(* the places of the payload that hold an element of a type the parser does
   not know: <<location, position>> *)
UnknownPlaces(data) ==
    {p \in (1..Len(Locations(data))) \X (1..MaxLocs + MaxUnknownLen) :
        /\ Has(Locations(data)[p[1]], "weatherElement")
        /\ p[2] <= Len(Locations(data)[p[1]].weatherElement)
        /\ Has(Locations(data)[p[1]].weatherElement[p[2]], "elementName")
        /\ Locations(data)[p[1]].weatherElement[p[2]].elementName \notin KnownNames}

(* the payload without the element at the place *)
Omit(data, p) ==
    [data EXCEPT !.records.location[p[1]].weatherElement = RemoveAt(@, p[2])]

SameWindow(e, f) ==
    /\ HasWindow(e) /\ HasWindow(f)
    /\ e.time[1].startTime = f.time[1].startTime
    /\ e.time[1].endTime = f.time[1].endTime

(* C6 as claimed: an element of an unrecognized type, at any position of a
   location's list, leaves the records what they are with the element
   omitted, and causes no error. *)
C6_UnknownIgnored ==
    (calls.parse /\ TopOk(forecast_data)) =>
        \A p \in UnknownPlaces(forecast_data) :
            LET without == parse_forecast_data(Omit(forecast_data, p), clock)
            IN  without # None => df = without

(* C6 as amended: an element of an unrecognized type that has a first time
   slot with a parameter leaves the result what it is with the element
   omitted, and causes no error, at any position after the first; at the
   first position it does so when the element after it has the same first
   window. *)
C6_UnknownIgnoredAfterFirst ==
    (calls.parse /\ TopOk(forecast_data)) =>
        \A p \in UnknownPlaces(forecast_data) :
            LET elements == Locations(forecast_data)[p[1]].weatherElement
            IN  (/\ WellFormedElement(elements[p[2]])
                 /\ \/ p[2] > 1
                    \/ Len(elements) > 1 /\ SameWindow(elements[1], elements[2]))
                => df = parse_forecast_data(Omit(forecast_data, p), clock)

C6_Witness ==
    /\ calls.parse /\ TopOk(forecast_data) /\ df # None
    /\ Len(Locations(forecast_data)) = 1
    /\ <<1, 2>> \in UnknownPlaces(forecast_data)
    /\ Len(Locations(forecast_data)[1].weatherElement) = 3
    /\ Locations(forecast_data)[1].weatherElement[1].elementName = "Wx"
    /\ Locations(forecast_data)[1].weatherElement[3].elementName = "MinT"
    /\ ~SameWindow(Locations(forecast_data)[1].weatherElement[1],
                   Locations(forecast_data)[1].weatherElement[2])

TenColumns ==
    <<"county", "start_time", "end_time", "update_time", "weather_description",
      "weather_code", "rain_probability", "min_temperature", "max_temperature",
      "comfort_index">>

(* C7: the CSV that upload_to_gcs writes has the same ten columns in the
   same order whatever the order of the elements in the payload and whichever
   optional elements are there; a field a record lacks is an empty cell. *)
C7_FixedColumns ==
    (calls.upload /\ Wrote(calls.behaviour)) =>
        LET csv == store[BlobName(filename)]
        IN  /\ csv[1] = TenColumns
            /\ \A i \in 2..Len(csv) : Len(csv[i]) = Len(TenColumns)

====
